---- MODULE Spec2Model ----
(***************************************************************************)
(* Physical memory manager of the solstice kernel (src/src/mm/pmm.rs):     *)
(* the sizing math, the per-zone buddy tree (Zone, Block) and the locked   *)
(* facade PhysAllocator, as called by several CPUs after PhysAllocator::   *)
(* init.                                                                   *)
(*                                                                         *)
(* Representation choices                                                  *)
(*  - A Block is modelled by its byte: 0 is Block::Used and the byte b > 0 *)
(*    is Block::LargestFreeOrder(NonZeroU8(b)).  The byte is kept because  *)
(*    Zone::alloc fills memory with a byte that can land on a Block slab.  *)
(*  - A PhysFrame is its frame number (address / 4096).                    *)
(*  - A u64 is modelled by the integer congruent to it modulo 2^64 of      *)
(*    smallest magnitude (its two's-complement reading): every quantity of *)
(*    the model is far below 2^31 in magnitude, so a negative integer n    *)
(*    stands for the u64 value 2^64 + n produced by a wrapped subtraction. *)
(***************************************************************************)
EXTENDS Integers, Sequences, FiniteSets, TLC

(* ------------------------------------------------------------------ *)
(* Program constants                                                  *)
(* ------------------------------------------------------------------ *)
MAX_ZONES == 64
MAX_ORDER == 11
MAX_ORDER_PAGES == 2048
PAGE_SIZE == 4096
FILL_DEBUG == 184
FILL_RELEASE == 0

(* mm::PHYS_OFFSET, the base of the kernel-half alias of physical      *)
(* memory; a page-aligned stand-in small enough for the model checker. *)
PHYS_OFFSET == 1073741824

(* Capacity of MemoryMap::regions. *)
MAX_REGIONS == 64

(* ------------------------------------------------------------------ *)
(* Bounds of the model                                                *)
(* ------------------------------------------------------------------ *)
NumThreads == 2
MaxCalls == 3
MaxConcCalls == 2
MaxT == 40
MaxStuckCalls == 3

Threads == 1..NumThreads
Orders == 0..MAX_ORDER

(* The orders the callers ask for. *)
RequestOrders == {0, 1, 2, 3, 4, MAX_ORDER}
Levels == 0..MAX_ORDER

(* ------------------------------------------------------------------ *)
(* Integer helpers of core and of the x86_64 crate                    *)
(* ------------------------------------------------------------------ *)
RECURSIVE Pow2(_)
Pow2(n) == IF n = 0 THEN 1 ELSE 2 * Pow2(n - 1)

align_up(x, a) == ((x + a - 1) \div a) * a

align_down(x, a) == (x \div a) * a

RECURSIVE next_power_of_two(_)
next_power_of_two(n) == IF n <= 1 THEN 1 ELSE 2 * next_power_of_two((n + 1) \div 2)

RECURSIVE trailing_zeros(_)
trailing_zeros(n) == IF n = 0 THEN 64 ELSE IF n % 2 = 1 THEN 0 ELSE 1 + trailing_zeros(n \div 2)

Min(a, b) == IF a < b THEN a ELSE b

(* ------------------------------------------------------------------ *)
(* Sizing math                                                        *)
(* ------------------------------------------------------------------ *)
blocks_in_region(pages) ==
    LET max_order_blocks == align_up(pages, MAX_ORDER_PAGES) \div MAX_ORDER_PAGES
    IN  max_order_blocks * (Pow2(MAX_ORDER + 1) - 1)

(* The quotient of usable_pages before its "- 2". *)
usable_quotient(total_pages, W) ==
    (4096 * total_pages - blocks_in_region(total_pages)) \div (W + 4096)

(* usable_pages as a u64 computation.  The final subtraction underflows    *)
(* when the quotient is below 2: a debug build panics there ("attempt to   *)
(* subtract with overflow"), a release build wraps, which the result shows *)
(* as the negative integer quotient - 2 (that is, 2^64 + quotient - 2).    *)
usable_pages(total_pages, W) ==
    LET q == usable_quotient(total_pages, W)
    IN  [overflow |-> q < 2, val |-> q - 2]

(* Unsigned comparison a <= b of two u64 values in the representation. *)
U64Le(a, b) == IF (a < 0) = (b < 0) THEN a <= b ELSE b < 0

(* ------------------------------------------------------------------ *)
(* Block                                                              *)
(* ------------------------------------------------------------------ *)
Used == 0

(* The enum value a byte of a slab is read as: the NonZeroU8 payload *)
(* is the byte itself and the niche 0 is the variant Used.           *)
Block_of_byte(b) ==
    IF b = 0 THEN [variant |-> "Used"]
    ELSE [variant |-> "LargestFreeOrder", nzu |-> b]

(* Block::from_order *)
from_order(largest_free_order) == largest_free_order + 1

(* A comparison that forgets that the byte is one above the order. *)
larger_than_Strict(blk, order) == IF blk # Used THEN blk > order + 1 ELSE FALSE

(* Block::larger_than *)
larger_than(blk, order) == IF blk # Used THEN blk > order ELSE FALSE

parent_state(left, right) ==
    IF left # Used /\ right # Used
    THEN IF left = right THEN left + 1
         ELSE IF left > right THEN left ELSE right
    ELSE IF left # Used THEN left
    ELSE IF right # Used THEN right
    ELSE Used

(* ------------------------------------------------------------------ *)
(* Region and RegionBumpAllocator (src/src/mm/map.rs)                 *)
(* ------------------------------------------------------------------ *)
(* A split that also accepts offset = size, leaving an empty suffix. *)
split_at_Inclusive(rg, offset) ==
    [ok    |-> offset <= rg.size,
     left  |-> [addr |-> rg.addr, size |-> offset],
     right |-> [addr |-> rg.addr + offset, size |-> rg.size - offset]]

(* Region::split_at; ok is FALSE when assert!(offset < self.size) fails. *)
split_at(rg, offset) ==
    [ok    |-> offset < rg.size,
     left  |-> [addr |-> rg.addr, size |-> offset],
     right |-> [addr |-> rg.addr + offset, size |-> rg.size - offset]]

RegionBumpAllocator_from(rg) == [start |-> rg.addr, size |-> rg.size, offset |-> 0]

(* A bump allocator that hands out the cursor without aligning it. *)
RegionBumpAllocator_alloc_Unaligned(a, size, align) ==
    LET new_off == align_up(a.offset + size, align)
    IN  IF new_off > a.size
        THEN [ok |-> FALSE, ptr |-> 0, alloc |-> a]
        ELSE [ok |-> TRUE,
              ptr |-> a.start + a.offset + PHYS_OFFSET,
              alloc |-> [a EXCEPT !.offset = new_off]]

(* RegionBumpAllocator::alloc; ptr is the returned kernel-half pointer. *)
RegionBumpAllocator_alloc(a, size, align) ==
    LET new_off == align_up(a.offset + size, align)
    IN  IF new_off > a.size
        THEN [ok |-> FALSE, ptr |-> 0, alloc |-> a]
        ELSE [ok |-> TRUE,
              ptr |-> a.start + align_up(a.offset, align) + PHYS_OFFSET,
              alloc |-> [a EXCEPT !.offset = new_off]]

(* Block::new_blocks_for_region: the zeroed slab, as a flat array of    *)
(* block_count bytes behind the pointer ptr; aligned is the condition   *)
(* of its debug_assert_eq.                                              *)
new_blocks_for_region(region, usable) ==
    LET block_count == blocks_in_region(usable)
        r == RegionBumpAllocator_alloc(RegionBumpAllocator_from(region), block_count * 1, 1)
    IN  [ok |-> r.ok, ptr |-> r.ptr, len |-> block_count,
         aligned |-> r.ptr = align_down(r.ptr, PAGE_SIZE),
         blocks |-> [j \in 0..(block_count - 1) |-> 0]]

(* ------------------------------------------------------------------ *)
(* Zone                                                               *)
(* ------------------------------------------------------------------ *)
max_order_blocks_of(num_pages) == align_up(num_pages, MAX_ORDER_PAGES) \div MAX_ORDER_PAGES

(* Length of the slice of one level, and where it starts in the slab:   *)
(* the slab is cut from level MAX_ORDER down to level 0.                *)
LevelLen(num_pages, L) == max_order_blocks_of(num_pages) * Pow2(MAX_ORDER - L)

LevelOffset(num_pages, L) == max_order_blocks_of(num_pages) * (Pow2(MAX_ORDER - L) - 1)

split_region(num_pages, blocks) ==
    [L \in Levels |->
        [i \in 0..(LevelLen(num_pages, L) - 1) |-> blocks[LevelOffset(num_pages, L) + i]]]

(* blocks_in_order of the fill loop of Zone::new when it reaches level L. *)
RECURSIVE blocks_in_order_at(_, _)
blocks_in_order_at(num_pages, L) ==
    IF L = 0 THEN num_pages
    ELSE LET b == blocks_in_order_at(num_pages, L - 1)
         IN  b \div 2 + (IF b % 2 = 0 THEN 0 ELSE 1)

Zone_new(addr, size, slab) ==
    LET num_pages == size \div PAGE_SIZE
        sliced == split_region(num_pages, slab.blocks)
        filled == [L \in Levels |->
                     [i \in DOMAIN sliced[L] |->
                        IF i < blocks_in_order_at(num_pages, L)
                        THEN from_order(L) ELSE sliced[L][i]]]
        largest_order == Min(trailing_zeros(next_power_of_two(num_pages)), MAX_ORDER + 1)
        order_list == [L \in Levels |->
                         IF L >= largest_order
                         THEN [filled[L] EXCEPT ![0] = from_order(largest_order)]
                         ELSE filled[L]]
        start_frame == addr \div PAGE_SIZE
    IN  [start |-> start_frame,
         end |-> start_frame + num_pages,
         num_pages |-> num_pages,
         order_list |-> order_list,
         blocks_addr |-> slab.ptr - PHYS_OFFSET]

(* Zone::update_tree, levels cur..MAX_ORDER; idx is the index at level cur - 1. *)
RECURSIVE update_tree_from(_, _, _)
update_tree_from(ol, cur, idx) ==
    IF cur > MAX_ORDER THEN ol
    ELSE LET left_idx == idx - (idx % 2)
             left == ol[cur - 1][left_idx]
             right == ol[cur - 1][left_idx + 1]
         IN  update_tree_from([ol EXCEPT ![cur][idx \div 2] = parent_state(left, right)],
                              cur + 1, idx \div 2)

update_tree(ol, start_order, idx) == update_tree_from(ol, start_order + 1, idx)

(* The top-level scan of Zone::alloc: the first slot of level MAX_ORDER  *)
(* with larger_than(order), or -1 when find() yields None.               *)
top_level_index(ol, order) ==
    LET hits == {i \in DOMAIN ol[MAX_ORDER] : larger_than(ol[MAX_ORDER][i], order)}
    IN  IF hits = {} THEN -1
        ELSE CHOOSE i \in hits : \A j \in hits : i <= j

(* The descent of Zone::alloc from level cur down to level order; -1 is  *)
(* the unreachable!() branch.                                            *)
RECURSIVE descend(_, _, _, _)
descend(ol, order, cur, idx) ==
    IF cur < order THEN idx
    ELSE LET i2 == idx * 2
         IN  IF larger_than(ol[cur][i2], order) THEN descend(ol, order, cur - 1, i2)
             ELSE IF larger_than(ol[cur][i2 + 1], order) THEN descend(ol, order, cur - 1, i2 + 1)
             ELSE -1

(* Zone::alloc without its fill: "none" is the None of the ? operator,   *)
(* "unreachable" the panic of unreachable!().                            *)
Zone_alloc(zone, order) ==
    LET top == top_level_index(zone.order_list, order)
    IN  IF top = -1 THEN [tag |-> "none", zone |-> zone, range |-> <<0, 0>>]
        ELSE LET idx == descend(zone.order_list, order, MAX_ORDER - 1, top)
             IN  IF idx = -1 THEN [tag |-> "unreachable", zone |-> zone, range |-> <<0, 0>>]
                 ELSE LET marked == [zone.order_list EXCEPT ![order][idx] = Used]
                          start_frame == zone.start + Pow2(order) * idx
                          end_frame == zone.start + Pow2(order) * (idx + 1)
                      IN  [tag |-> "some",
                           zone |-> [zone EXCEPT !.order_list = update_tree(marked, order, idx)],
                           range |-> <<start_frame, end_frame>>]

(* A free that takes the order from the number of pages and checks    *)
(* nothing, as a build without debug assertions would.                *)
Zone_free_PageOrder(zone, range, debug) ==
    LET len == range[2] - range[1]
        order == trailing_zeros(len)
        idx == (range[1] - zone.start) \div len
        in_bounds == order <= MAX_ORDER /\ idx \in DOMAIN zone.order_list[order]
    IN  IF ~in_bounds
        THEN [tag |-> "panic", zone |-> zone]
        ELSE LET marked == [zone.order_list EXCEPT ![order][idx] = from_order(order)]
             IN  [tag |-> "ok",
                  zone |-> [zone EXCEPT !.order_list = update_tree(marked, order, idx)]]

(* Zone::free.  len is a byte count (a difference of start addresses),   *)
(* idx a frame count divided by it.  A debug build stops at the first    *)
(* failing debug_assert, a release build at an index outside order_list  *)
(* or outside the level's slice.                                         *)
Zone_free(zone, range, debug) ==
    LET len == range[2] * PAGE_SIZE - range[1] * PAGE_SIZE
        order == trailing_zeros(len)
        idx == (range[1] - zone.start) \div len
        in_bounds == order <= MAX_ORDER /\ idx \in DOMAIN zone.order_list[order]
        asserts == /\ order <= MAX_ORDER
                   /\ zone.start * PAGE_SIZE <= range[1] * PAGE_SIZE
                   /\ zone.end * PAGE_SIZE >= range[2] * PAGE_SIZE
                   /\ in_bounds
                   /\ zone.order_list[order][idx] = Used
    IN  IF (debug /\ ~asserts) \/ ~in_bounds
        THEN [tag |-> "panic", zone |-> zone]
        ELSE LET marked == [zone.order_list EXCEPT ![order][idx] = from_order(order)]
             IN  [tag |-> "ok",
                  zone |-> [zone EXCEPT !.order_list = update_tree(marked, order, idx)]]

(* ------------------------------------------------------------------ *)
(* PhysAllocator::init                                                *)
(* ------------------------------------------------------------------ *)
(* One iteration of the loop of init, for the region rg the iterator    *)
(* gave, zones being the ArrayVec built so far. tag tells how it ends:  *)
(* "panic" (at names the failing step), "skip" (continue) or "zone"     *)
(* (a zone was pushed). usable is the value of usable_pages, reserved   *)
(* the size of the prefix handed to split_at.                           *)
init_region(rg, zones, W, debug) ==
    LET pages_in_rg == rg.size \div PAGE_SIZE
        up == usable_pages(pages_in_rg, W)
        reserved == (pages_in_rg - up.val) * PAGE_SIZE
        sp == split_at(rg, reserved)
        slab == new_blocks_for_region(sp.left, up.val)
        out(tag, at, zs) == [tag |-> tag, at |-> at, rg |-> rg, usable |-> up.val,
                             reserved |-> reserved, zones |-> zs]
    IN  IF up.overflow /\ debug THEN out("panic", "usable_pages", zones)
        ELSE IF U64Le(up.val, 1) THEN out("skip", "continue", zones)
        ELSE IF ~sp.ok THEN out("panic", "split_at", zones)
        ELSE IF ~slab.ok THEN out("panic", "new_blocks_for_region", zones)
        ELSE IF (debug /\ ~slab.aligned) \/ Len(zones) >= MAX_ZONES
                \/ sp.right.addr % PAGE_SIZE # 0
             THEN out("panic", "push", zones)
        ELSE out("zone", "push",
                 Append(zones, Zone_new(sp.right.addr,
                                        align_down(sp.right.size, PAGE_SIZE), slab)))

(* The loop of init over the regions still in the map, zones being the  *)
(* ArrayVec built so far; panic is TRUE when the boot stops in a panic. *)
RECURSIVE init_regions(_, _, _, _)
init_regions(map, zones, W, debug) ==
    IF map = <<>> THEN [panic |-> FALSE, zones |-> zones]
    ELSE LET r == init_region(Head(map), zones, W, debug)
         IN  IF r.tag = "panic" THEN [panic |-> TRUE, zones |-> zones]
             ELSE init_regions(Tail(map), r.zones, W, debug)

PhysAllocator_init(map, W, debug) == init_regions(map, <<>>, W, debug)

(* ------------------------------------------------------------------ *)
(* Boot inputs: the MemoryMap handed to PhysAllocator::init           *)
(* ------------------------------------------------------------------ *)
Pages(n) == n * PAGE_SIZE

(* One region of 7 pages: a zone of 3 pages. *)
MapOdd == << [addr |-> Pages(16), size |-> Pages(7)] >>

(* Two regions of 13 pages, the second starting where the first ends:  *)
(* two zones of 9 pages.                                               *)
MapAdjacent == << [addr |-> Pages(16), size |-> Pages(13)],
                  [addr |-> Pages(29), size |-> Pages(13)] >>

(* Regions of 6 and 8 pages far apart: zones of 2 and 4 pages. *)
MapApart == << [addr |-> Pages(16), size |-> Pages(6)],
               [addr |-> Pages(48), size |-> Pages(8)] >>

(* One region of 2057 pages: a zone of exactly MAX_ORDER_PAGES pages. *)
MapFull == << [addr |-> Pages(16), size |-> Pages(2057)] >>

Maps == {MapOdd, MapAdjacent, MapApart, MapFull}

(* A region of 7 pages (zone of 3 pages) and, starting where it ends,  *)
(* one of 2058 pages: a zone of 2049 pages whose slab of 8190 bytes    *)
(* takes the first two frames of the region.                           *)
MapSpill == << [addr |-> Pages(16), size |-> Pages(7)],
               [addr |-> Pages(23), size |-> Pages(2058)] >>

(* size_of::<PageInfo>() of the booted kernel. *)
PageInfoSize == 8

(* Sizes of PageInfo the sizing math is checked for. *)
PageInfoSizes == {0, 8, 64}

VARIABLES
    W,          \* size_of::<PageInfo>()
    debug,      \* cfg!(debug_assertions) of the build
    bootPanic,  \* PhysAllocator::init ended in a panic
    zones,      \* PMM.zones: the sequence of Zone
    mem,        \* mem[f]: the byte that fills frame f, for the frames write_bytes filled last
    readers,    \* threads holding PMM.zones in read mode
    zlock,      \* zlock[z]: the thread holding the SpinLock of zone z, or 0
    pc,         \* pc[t]: where thread t is inside PhysAllocator::alloc / free
    op,         \* op[t]: "alloc" or "free", the call thread t is in
    arg,        \* arg[t]: the order of the alloc call
    rng,        \* rng[t]: the range passed to free, or the range Zone::alloc produced
    zi,         \* zi[t]: position of the zone iterator of the for loop
    live,       \* ranges returned by alloc and not yet passed to free
    dup,        \* some alloc returned a range that was already live
    overlapped, \* overlapped[t]: another alloc call ran during t's alloc call
    concurrent, \* ranges returned by alloc calls that ran concurrently with another
    calls,      \* number of calls the CPUs may still begin
    szT,        \* sizing math: total pages of the region
    szPc,       \* sizing math: "off", "start", "done"
    szRes,      \* sizing math: result of usable_pages
    fw,         \* the firmware memory map given to MemoryMap::new
    regions,    \* MemoryMap::regions
    num_pages,  \* MemoryMap::num_pages
    mmPc,       \* MemoryMap: "off", "new" (inside MemoryMap::new), "ready", "panic"
    mmOut,      \* frame returned by the last allocate_frame, -1 before the first
    mmCalls,    \* number of allocate_frame calls made
    mmGiven,    \* the frames allocate_frame has returned
    btLast,     \* PhysAllocator::init: what its last loop iteration did
    rgBump,     \* the RegionBumpAllocator under test (start and size are its Region)
    rgPc,       \* Region: "off", "run", "panic"
    rgRes,      \* the last call on the region, its inputs and what it returned
    rgCalls,    \* number of calls the region may still receive
    rgAllocs,   \* the successful allocations of rgBump, as <<ptr, size>>
    blkK,       \* Block: the order handed to from_order
    blkO,       \* Block: the order handed to larger_than
    blkPc,      \* Block: "off", "start", "done"
    blkRes      \* Block: what the Block functions returned

vars == << W, debug, bootPanic, zones, mem, readers, zlock, pc, op, arg, rng, zi,
           live, dup, overlapped, concurrent, calls, szT, szPc, szRes,
           fw, regions, num_pages, mmPc, mmOut, mmCalls, mmGiven, btLast,
           rgBump, rgPc, rgRes, rgCalls, rgAllocs, blkK, blkO, blkPc, blkRes >>

szVars == << szT, szPc, szRes >>
mmVars == << fw, regions, num_pages, mmPc, mmOut, mmCalls, mmGiven >>
rgVars == << rgBump, rgPc, rgRes, rgCalls, rgAllocs >>
blkVars == << blkK, blkO, blkPc, blkRes >>
btVars == << btLast >>
auxVars == << mmVars, rgVars, blkVars, btVars >>
bootVars == << W, debug, bootPanic >>
histVars == << overlapped, concurrent >>

NoRange == <<0, 0>>

FramesOf(r) == r[1]..(r[2] - 1)

ZoneIds == 1..Len(zones)

(* The parts of the state a specification does not exercise. *)
AllocatorOff ==
    /\ bootPanic = FALSE
    /\ zones = << >>
    /\ mem = << >>
    /\ readers = {}
    /\ zlock = << >>
    /\ pc = [t \in Threads |-> "idle"]
    /\ op = [t \in Threads |-> "none"]
    /\ arg = [t \in Threads |-> 0]
    /\ rng = [t \in Threads |-> NoRange]
    /\ zi = [t \in Threads |-> 0]
    /\ live = {}
    /\ dup = FALSE
    /\ overlapped = [t \in Threads |-> FALSE]
    /\ concurrent = {}
    /\ calls = 0

SizingOff ==
    /\ szT = 0
    /\ szPc = "off"
    /\ szRes = [overflow |-> FALSE, val |-> 0]

MapOff ==
    /\ fw = << >>
    /\ regions = << >>
    /\ num_pages = 0
    /\ mmPc = "off"
    /\ mmOut = -1
    /\ mmCalls = 0
    /\ mmGiven = {}
    /\ btLast = [tag |-> "none"]

RegionOff ==
    /\ rgBump = [start |-> 0, size |-> 0, offset |-> 0]
    /\ rgPc = "off"
    /\ rgRes = [op |-> "none"]
    /\ rgCalls = 0
    /\ rgAllocs = {}

BlockOff ==
    /\ blkK = 0
    /\ blkO = 0
    /\ blkPc = "off"
    /\ blkRes = [op |-> "none"]

(* State right after PhysAllocator::init(map) returned (or panicked), *)
(* for a map of maps.                                                 *)
InitOn(maps, budget) ==
    \E map \in maps, dbg \in BOOLEAN :
        LET boot == PhysAllocator_init(map, PageInfoSize, dbg)
        IN  /\ W = PageInfoSize
            /\ debug = dbg
            /\ bootPanic = boot.panic
            /\ zones = boot.zones
            /\ mem = << >>
            /\ readers = {}
            /\ zlock = [z \in 1..Len(boot.zones) |-> 0]
            /\ pc = [t \in Threads |-> "idle"]
            /\ op = [t \in Threads |-> "none"]
            /\ arg = [t \in Threads |-> 0]
            /\ rng = [t \in Threads |-> NoRange]
            /\ zi = [t \in Threads |-> 0]
            /\ live = {}
            /\ dup = FALSE
            /\ overlapped = [t \in Threads |-> FALSE]
            /\ concurrent = {}
            /\ calls = budget
            /\ SizingOff /\ MapOff /\ RegionOff /\ BlockOff

InitWith(budget) == InitOn(Maps, budget)

Init == InitWith(MaxCalls)

InitMT == InitWith(MaxConcCalls)

(* ------------------------------------------------------------------ *)
(* PhysAllocator::alloc and PhysAllocator::free, step by step         *)
(* ------------------------------------------------------------------ *)
InAlloc(t) == op[t] = "alloc" /\ pc[t] \in {"read", "lock", "zone", "next", "fill", "ret"}

(* A CPU calls PhysAllocator::alloc(order), order <= MAX_ORDER. *)
AllocCall(t, order) ==
    /\ ~bootPanic
    /\ pc[t] = "idle"
    /\ calls > 0
    /\ pc' = [pc EXCEPT ![t] = "read"]
    /\ op' = [op EXCEPT ![t] = "alloc"]
    /\ arg' = [arg EXCEPT ![t] = order]
    /\ rng' = [rng EXCEPT ![t] = NoRange]
    /\ calls' = calls - 1
    /\ overlapped' = [u \in Threads |->
                        IF u = t THEN \E v \in Threads \ {t} : InAlloc(v)
                        ELSE overlapped[u] \/ InAlloc(u)]
    /\ UNCHANGED << bootVars, zones, mem, readers, zlock, zi, live, dup, concurrent, szVars, auxVars >>

(* A CPU calls PhysAllocator::free(range) with a range it got from alloc. *)
FreeCall(t, r) ==
    /\ ~bootPanic
    /\ pc[t] = "idle"
    /\ calls > 0
    /\ r \in live
    /\ pc' = [pc EXCEPT ![t] = "read"]
    /\ op' = [op EXCEPT ![t] = "free"]
    /\ rng' = [rng EXCEPT ![t] = r]
    /\ live' = live \ {r}
    /\ calls' = calls - 1
    /\ UNCHANGED << bootVars, zones, mem, readers, zlock, arg, zi, dup, histVars, szVars, auxVars >>

(* PMM.zones.read(): the reader-writer lock has no writer after init. *)
ReadLock(t) ==
    /\ pc[t] = "read"
    /\ readers' = readers \cup {t}
    /\ zi' = [zi EXCEPT ![t] = 1]
    /\ pc' = [pc EXCEPT ![t] = "lock"]
    /\ UNCHANGED << bootVars, zones, mem, zlock, op, arg, rng, live, dup, histVars, calls, szVars, auxVars >>

(* zone.lock() of the current iteration: spins until the lock is free. *)
ZoneLock(t) ==
    /\ pc[t] = "lock"
    /\ zi[t] \in ZoneIds
    /\ zlock[zi[t]] = 0
    /\ zlock' = [zlock EXCEPT ![zi[t]] = t]
    /\ pc' = [pc EXCEPT ![t] = "zone"]
    /\ UNCHANGED << bootVars, zones, mem, readers, op, arg, rng, zi, live, dup, histVars, calls, szVars, auxVars >>

(* The for loop ran out of zones: the read guard is dropped and the call panics. *)
LoopEnd(t) ==
    /\ pc[t] = "lock"
    /\ zi[t] \notin ZoneIds
    /\ readers' = readers \ {t}
    /\ pc' = [pc EXCEPT ![t] = IF op[t] = "alloc" THEN "panic_oom" ELSE "panic_unmanaged"]
    /\ UNCHANGED << bootVars, zones, mem, zlock, op, arg, rng, zi, live, dup, histVars, calls, szVars, auxVars >>

(* mem without what it records about the frames fr, which were written piecewise. *)
Forget(m, fr) == [f \in DOMAIN m \ fr |-> m[f]]

(* Frames of the Block slab of a zone. *)
SlabFrames(zone) ==
    (zone.blocks_addr \div PAGE_SIZE) ..
        ((zone.blocks_addr + blocks_in_region(zone.num_pages) - 1) \div PAGE_SIZE)

(* zone.alloc(order) under the zone lock, up to the fill. *)
ZoneAlloc(t) ==
    /\ pc[t] = "zone"
    /\ op[t] = "alloc"
    /\ LET r == Zone_alloc(zones[zi[t]], arg[t])
       IN  /\ zones' = [zones EXCEPT ![zi[t]] = r.zone]
           /\ rng' = [rng EXCEPT ![t] = r.range]
           /\ pc' = [pc EXCEPT ![t] = CASE r.tag = "some" -> "fill"
                                        [] r.tag = "none" -> "next"
                                        [] OTHER -> "panic_unreachable"]
           /\ mem' = IF r.tag = "some" THEN Forget(mem, SlabFrames(zones[zi[t]])) ELSE mem
    /\ UNCHANGED << bootVars, readers, zlock, op, arg, zi, live, dup, histVars, calls, szVars, auxVars >>

(* A fill that forgets the order: one page only. *)
fill_len_OnePage(order) == PAGE_SIZE

(* Number of bytes written by the write_bytes of Zone::alloc. *)
fill_len(order) == PAGE_SIZE * Pow2(order)

fill_byte(dbg) == IF dbg THEN FILL_DEBUG ELSE FILL_RELEASE

(* The frames overwritten by write_bytes(start, byte, len). *)
FilledFrames(start_frame, len) == start_frame..(start_frame + len \div PAGE_SIZE - 1)

(* A zone's tree after write_bytes ran over the frames fr: every Block  *)
(* of its slab stored in one of these frames now holds the byte.        *)
Overwritten(zone, fr, byte) ==
    IF SlabFrames(zone) \cap fr = {} THEN zone
    ELSE [zone EXCEPT !.order_list =
            [L \in Levels |->
               [i \in DOMAIN zone.order_list[L] |->
                  IF (zone.blocks_addr + LevelOffset(zone.num_pages, L) + i) \div PAGE_SIZE \in fr
                  THEN byte ELSE zone.order_list[L][i]]]]

(* The write_bytes of Zone::alloc, still under the zone lock. *)
ZoneFill(t) ==
    /\ pc[t] = "fill"
    /\ LET fr == FilledFrames(rng[t][1], fill_len(arg[t]))
       IN  /\ mem' = [f \in DOMAIN mem \cup fr |-> IF f \in fr THEN fill_byte(debug) ELSE mem[f]]
           /\ zones' = [z \in ZoneIds |-> Overwritten(zones[z], fr, fill_byte(debug))]
    /\ pc' = [pc EXCEPT ![t] = "ret"]
    /\ UNCHANGED << bootVars, readers, zlock, op, arg, rng, zi, live, dup, histVars, calls, szVars, auxVars >>

(* return range: the zone guard and the read guard are dropped. *)
AllocReturn(t) ==
    /\ pc[t] = "ret"
    /\ zlock' = [zlock EXCEPT ![zi[t]] = 0]
    /\ readers' = readers \ {t}
    /\ live' = live \cup {rng[t]}
    /\ dup' = (dup \/ rng[t] \in live)
    /\ concurrent' = IF overlapped[t] THEN concurrent \cup {rng[t]} ELSE concurrent
    /\ overlapped' = [overlapped EXCEPT ![t] = FALSE]
    /\ pc' = [pc EXCEPT ![t] = "idle"]
    /\ UNCHANGED << bootVars, zones, mem, op, arg, rng, zi, calls, szVars, auxVars >>

(* A free that routes by the start of the range alone. *)
ZoneFree_StartOnly(t) ==
    /\ pc[t] = "zone"
    /\ op[t] = "free"
    /\ LET zone == zones[zi[t]]
       IN  IF zone.start * PAGE_SIZE <= rng[t][1] * PAGE_SIZE
           THEN LET r == Zone_free(zone, rng[t], debug)
                IN  IF r.tag = "panic"
                    THEN /\ pc' = [pc EXCEPT ![t] = "panic_free"]
                         /\ UNCHANGED << zones, zlock, readers, mem >>
                    ELSE /\ zones' = [zones EXCEPT ![zi[t]] = r.zone]
                         /\ mem' = Forget(mem, SlabFrames(zone))
                         /\ zlock' = [zlock EXCEPT ![zi[t]] = 0]
                         /\ readers' = readers \ {t}
                         /\ pc' = [pc EXCEPT ![t] = "idle"]
           ELSE /\ pc' = [pc EXCEPT ![t] = "next"]
                /\ UNCHANGED << zones, zlock, readers, mem >>
    /\ UNCHANGED << bootVars, op, arg, rng, zi, live, dup, histVars, calls, szVars, auxVars >>

(* The body of the loop of PhysAllocator::free under the zone lock:    *)
(* zone.free(range) and return when the zone contains the range.       *)
ZoneFree(t) ==
    /\ pc[t] = "zone"
    /\ op[t] = "free"
    /\ LET zone == zones[zi[t]]
       IN  IF zone.start * PAGE_SIZE <= rng[t][1] * PAGE_SIZE
              /\ zone.end * PAGE_SIZE >= rng[t][2] * PAGE_SIZE
           THEN LET r == Zone_free(zone, rng[t], debug)
                IN  IF r.tag = "panic"
                    THEN /\ pc' = [pc EXCEPT ![t] = "panic_free"]
                         /\ UNCHANGED << zones, zlock, readers, mem >>
                    ELSE /\ zones' = [zones EXCEPT ![zi[t]] = r.zone]
                         /\ mem' = Forget(mem, SlabFrames(zone))
                         /\ zlock' = [zlock EXCEPT ![zi[t]] = 0]
                         /\ readers' = readers \ {t}
                         /\ pc' = [pc EXCEPT ![t] = "idle"]
           ELSE /\ pc' = [pc EXCEPT ![t] = "next"]
                /\ UNCHANGED << zones, zlock, readers, mem >>
    /\ UNCHANGED << bootVars, op, arg, rng, zi, live, dup, histVars, calls, szVars, auxVars >>

(* A loop that steps over the zone after one that failed. *)
ZoneUnlockNext_SkipZone(t) ==
    /\ pc[t] = "next"
    /\ zlock' = [zlock EXCEPT ![zi[t]] = 0]
    /\ zi' = [zi EXCEPT ![t] = zi[t] + 2]
    /\ pc' = [pc EXCEPT ![t] = "lock"]
    /\ UNCHANGED << bootVars, zones, mem, readers, op, arg, rng, live, dup, histVars, calls, szVars, auxVars >>

(* A loop whose zone guard outlives the iteration. *)
ZoneUnlockNext_KeepLock(t) ==
    /\ pc[t] = "next"
    /\ zi' = [zi EXCEPT ![t] = zi[t] + 1]
    /\ pc' = [pc EXCEPT ![t] = "lock"]
    /\ UNCHANGED << bootVars, zones, mem, readers, zlock, op, arg, rng, live, dup, histVars, calls, szVars, auxVars >>

(* End of one iteration of the for loop: the zone guard is dropped. *)
ZoneUnlockNext(t) ==
    /\ pc[t] = "next"
    /\ zlock' = [zlock EXCEPT ![zi[t]] = 0]
    /\ zi' = [zi EXCEPT ![t] = zi[t] + 1]
    /\ pc' = [pc EXCEPT ![t] = "lock"]
    /\ UNCHANGED << bootVars, zones, mem, readers, op, arg, rng, live, dup, histVars, calls, szVars, auxVars >>

(* One step of one CPU. *)
Step(t) ==
    \/ \E order \in RequestOrders : AllocCall(t, order)
    \/ \E r \in live : FreeCall(t, r)
    \/ ReadLock(t)
    \/ ZoneLock(t)
    \/ LoopEnd(t)
    \/ ZoneAlloc(t)
    \/ ZoneFill(t)
    \/ AllocReturn(t)
    \/ ZoneFree(t)
    \/ ZoneUnlockNext(t)

(* One CPU calling the allocator. *)
Next == Step(1)

Spec == Init /\ [][Next]_vars

(* One CPU calling the allocator booted on MapSpill. *)
InitSpill == InitOn({MapSpill}, MaxCalls)

SpecSpill == InitSpill /\ [][Next]_vars

(* Several CPUs calling the allocator at the same time. *)
NextMT == \E t \in Threads : Step(t)

SpecMT == InitMT /\ [][NextMT]_vars

(* The CPUs on the map of two small zones, with calls enough for one  *)
(* CPU to panic in its second call while the other CPU is in a call.   *)
InitStuck == InitOn({MapApart}, MaxStuckCalls)

SpecMTStuck == InitStuck /\ [][NextMT]_vars

(* ------------------------------------------------------------------ *)
(* The sizing math on its own                                         *)
(* ------------------------------------------------------------------ *)
InitSizing ==
    \E T \in 0..MaxT, w \in PageInfoSizes, dbg \in BOOLEAN :
        /\ W = w
        /\ debug = dbg
        /\ AllocatorOff /\ MapOff /\ RegionOff /\ BlockOff
        /\ szT = T
        /\ szPc = "start"
        /\ szRes = [overflow |-> FALSE, val |-> 0]

(* usable_pages(szT) is evaluated: a debug build panics on the u64     *)
(* underflow, a release build goes on with the wrapped value.          *)
ComputeUsable ==
    /\ szPc = "start"
    /\ szRes' = usable_pages(szT, W)
    /\ szPc' = IF usable_pages(szT, W).overflow /\ debug THEN "panic" ELSE "done"
    /\ UNCHANGED << bootVars, zones, mem, readers, zlock, pc, op, arg, rng, zi,
                    live, dup, histVars, calls, szT, auxVars >>

NextSizing == ComputeUsable

SpecSizing == InitSizing /\ [][NextSizing]_vars

(* ================================================================== *)
(* MemoryMap, the bootstrap frame allocator                           *)
(* ================================================================== *)
(* A firmware MemoryRegion: a range of frame numbers and its type. *)
MemoryRegion(s, e, ty) == [start |-> s, end |-> e, region_type |-> ty]

(* The Region MemoryMap::new builds from a firmware entry. *)
region_of(reg) == [addr |-> reg.start * PAGE_SIZE,
                   size |-> reg.end * PAGE_SIZE - reg.start * PAGE_SIZE]

(* A filter that drops the regions the boot loader used. *)
is_consumed_UsableOnly(region_type) == region_type = "Usable"

(* The filter of MemoryMap::new. *)
is_consumed(region_type) == region_type = "Usable" \/ region_type = "Bootloader"

(* MemoryMap::push *)
MemoryMap_push(bump, rg) ==
    [regions   |-> Append(bump.regions, rg),
     num_pages |-> bump.num_pages + rg.size \div PAGE_SIZE]

RECURSIVE MemoryMap_collect(_, _)
(* The first loop of MemoryMap::new. *)
MemoryMap_collect(memory_map, bump) ==
    IF memory_map = << >> THEN bump
    ELSE LET reg == Head(memory_map)
         IN  MemoryMap_collect(Tail(memory_map),
                               IF is_consumed(reg.region_type)
                               THEN MemoryMap_push(bump, region_of(reg))
                               ELSE bump)

(* MemoryMap::new up to the PageInfo loop: the map and whether it      *)
(* panicked (no region kept, or more regions than the ArrayVec holds). *)
MemoryMap_new(memory_map) ==
    LET bump == MemoryMap_collect(memory_map, [regions |-> << >>, num_pages |-> 0])
    IN  [panic |-> Len(bump.regions) = 0 \/ Len(bump.regions) > MAX_REGIONS,
         bump  |-> bump]

(* Index of the first region with a whole page left, 0 when none. *)
find_region(rgs) ==
    LET fit == {i \in 1..Len(rgs) : rgs[i].size >= PAGE_SIZE}
    IN  IF fit = {} THEN 0 ELSE CHOOSE i \in fit : \A j \in fit : i <= j

(* ArrayVec::remove *)
remove(s, idx) == [i \in 1..(Len(s) - 1) |-> IF i < idx THEN s[i] ELSE s[i + 1]]

(* An allocate_frame that shrinks the region it found without moving  *)
(* its start past the returned frame.                                  *)
MemoryMap_allocate_frame_NoAdvance(bump) ==
    LET idx == find_region(bump.regions)
    IN  IF idx = 0
        THEN [panic |-> TRUE, out |-> -1, bump |-> bump]
        ELSE LET found  == bump.regions[idx]
                 shrunk == [addr |-> found.addr,
                            size |-> found.size - PAGE_SIZE]
                 kept   == [bump.regions EXCEPT ![idx] = shrunk]
             IN  [panic |-> FALSE,
                  out   |-> found.addr \div PAGE_SIZE,
                  bump  |-> [regions   |-> IF shrunk.size = 0
                                           THEN remove(kept, idx)
                                           ELSE kept,
                             num_pages |-> bump.num_pages - 1]]

(* An allocate_frame that leaves an emptied region in the array. *)
MemoryMap_allocate_frame_KeepEmpty(bump) ==
    LET idx == find_region(bump.regions)
    IN  IF idx = 0
        THEN [panic |-> TRUE, out |-> -1, bump |-> bump]
        ELSE LET found  == bump.regions[idx]
                 shrunk == [addr |-> found.addr + PAGE_SIZE,
                            size |-> found.size - PAGE_SIZE]
             IN  [panic |-> FALSE,
                  out   |-> found.addr \div PAGE_SIZE,
                  bump  |-> [regions   |-> [bump.regions EXCEPT ![idx] = shrunk],
                             num_pages |-> bump.num_pages - 1]]

(* MemoryMap::allocate_frame: out is the number of the returned frame. *)
MemoryMap_allocate_frame(bump) ==
    LET idx == find_region(bump.regions)
    IN  IF idx = 0
        THEN [panic |-> TRUE, out |-> -1, bump |-> bump]
        ELSE LET found  == bump.regions[idx]
                 shrunk == [addr |-> found.addr + PAGE_SIZE,
                            size |-> found.size - PAGE_SIZE]
                 kept   == [bump.regions EXCEPT ![idx] = shrunk]
             IN  [panic |-> FALSE,
                  out   |-> found.addr \div PAGE_SIZE,
                  bump  |-> [regions   |-> IF shrunk.size = 0
                                           THEN remove(kept, idx)
                                           ELSE kept,
                             num_pages |-> bump.num_pages - 1]]

(* The firmware map of tests::allocate. *)
FwTest == << MemoryRegion(1, 2, "Usable"),
             MemoryRegion(2, 3, "Reserved"),
             MemoryRegion(3, 5, "Usable") >>

(* Boot loader pages first, the kernel image in between. *)
FwBoot == << MemoryRegion(1, 6, "Bootloader"),
             MemoryRegion(6, 10, "Kernel"),
             MemoryRegion(10, 24, "Usable") >>

(* An empty usable range ahead of the memory, which stays in the array. *)
FwEmpty == << MemoryRegion(2, 2, "Usable"),
              MemoryRegion(3, 11, "Usable"),
              MemoryRegion(11, 12, "AcpiNvs"),
              MemoryRegion(12, 30, "Bootloader"),
              MemoryRegion(30, 32, "Usable") >>

(* Nothing the kernel may use. *)
FwNone == << MemoryRegion(0, 1, "FrameZero"),
             MemoryRegion(1, 4, "Kernel") >>

FirmwareMaps == {FwTest, FwBoot, FwEmpty, FwNone}

(* MemoryMap::new has run its first loop over the firmware map. *)
InitMapOn(maps) ==
    \E m \in maps, dbg \in BOOLEAN :
        LET r == MemoryMap_new(m)
        IN  /\ W = PageInfoSize
            /\ debug = dbg
            /\ AllocatorOff /\ SizingOff /\ RegionOff /\ BlockOff
            /\ fw = m
            /\ regions = r.bump.regions
            /\ num_pages = r.bump.num_pages
            /\ mmPc = IF r.panic THEN "panic" ELSE "new"
            /\ mmOut = -1
            /\ mmCalls = 0
            /\ mmGiven = {}
            /\ btLast = [tag |-> "none"]

InitMap == InitMapOn(FirmwareMaps)

(* One call of allocate_frame: by the PageInfo loop of MemoryMap::new  *)
(* (for a page of the array that is not mapped yet, and for the page   *)
(* tables map_to_with_allocator needs) or by the owner of the map.     *)
AllocateFrame ==
    /\ mmPc \in {"new", "ready"}
    /\ LET r == MemoryMap_allocate_frame([regions |-> regions, num_pages |-> num_pages])
       IN  IF r.panic
           THEN /\ mmPc' = "panic"
                /\ UNCHANGED << regions, num_pages, mmOut, mmCalls, mmGiven, mem >>
           ELSE /\ regions' = r.bump.regions
                /\ num_pages' = r.bump.num_pages
                /\ mmOut' = r.out
                /\ mmCalls' = mmCalls + 1
                /\ mmGiven' = mmGiven \cup {r.out}
                /\ mem' = [f \in (DOMAIN mem) \cup {r.out} |->
                              IF f = r.out THEN fill_byte(debug) ELSE mem[f]]
                /\ UNCHANGED mmPc
    /\ UNCHANGED fw

(* MemoryMap::new returns the map. *)
NewReturn ==
    /\ mmPc = "new"
    /\ mmPc' = "ready"
    /\ UNCHANGED << fw, regions, num_pages, mmOut, mmCalls, mmGiven, mem >>

NextMap ==
    /\ AllocateFrame \/ NewReturn
    /\ UNCHANGED << bootVars, zones, readers, zlock, pc, op, arg, rng, zi,
                    live, dup, histVars, calls, szVars, rgVars, blkVars, btVars >>

SpecMap == InitMap /\ [][NextMap]_vars

(* ================================================================== *)
(* Boot: MemoryMap::new, the bootstrap allocator, PhysAllocator::init *)
(* and the first calls on the booted allocator                        *)
(* ================================================================== *)
(* Frames the bootstrap allocator hands out before the hand-over. *)
MaxBootFrames == 5

(* Calls of PhysAllocator::alloc and free after the boot. *)
MaxBootCalls == 2

(* Two usable ranges, the second starting where the first ends. *)
FwTwo == << MemoryRegion(16, 23, "Usable"),
            MemoryRegion(23, 36, "Usable") >>

BootMaps == {FwTest, FwBoot, FwTwo}

InitBoot == InitMapOn(BootMaps)

(* allocate_frame, called while the MemoryMap is still the allocator. *)
BootAllocateFrame ==
    /\ mmCalls < MaxBootFrames
    /\ AllocateFrame
    /\ UNCHANGED << bootVars, zones, readers, zlock, pc, op, arg, rng, zi,
                    live, dup, histVars, calls, szVars, rgVars, blkVars, btVars >>

BootNewReturn ==
    /\ NewReturn
    /\ UNCHANGED << bootVars, zones, readers, zlock, pc, op, arg, rng, zi,
                    live, dup, histVars, calls, szVars, rgVars, blkVars, btVars >>

(* PhysAllocator::init(map) is entered: zones is a new ArrayVec and the *)
(* map becomes the RegionIter of the for loop.                          *)
InitBegin ==
    /\ mmPc = "ready"
    /\ mmPc' = "init"
    /\ zones' = << >>
    /\ zlock' = << >>
    /\ UNCHANGED << bootVars, mem, readers, pc, op, arg, rng, zi, live, dup, histVars,
                    calls, szVars, fw, regions, num_pages, mmOut, mmCalls, mmGiven,
                    rgVars, blkVars, btVars >>

(* One iteration of the for loop: RegionIter::next pops the first      *)
(* region, and the loop body runs on it. A panic halts the machine.    *)
InitStep ==
    /\ mmPc = "init"
    /\ regions # << >>
    /\ LET r == init_region(Head(regions), zones, W, debug)
       IN  /\ regions' = Tail(regions)
           /\ zones' = r.zones
           /\ zlock' = [z \in 1..Len(r.zones) |-> 0]
           /\ btLast' = [tag |-> r.tag, at |-> r.at, rg |-> r.rg,
                         usable |-> r.usable, reserved |-> r.reserved]
           /\ bootPanic' = (r.tag = "panic")
           /\ mmPc' = IF r.tag = "panic" THEN "halt" ELSE "init"
    /\ UNCHANGED << W, debug, mem, readers, pc, op, arg, rng, zi, live, dup, histVars,
                    calls, szVars, fw, num_pages, mmOut, mmCalls, mmGiven,
                    rgVars, blkVars >>

(* RegionIter::next returns None: the zones are stored in PMM.zones    *)
(* and the CPU goes on to use the allocator.                           *)
InitDone ==
    /\ mmPc = "init"
    /\ regions = << >>
    /\ mmPc' = "booted"
    /\ calls' = MaxBootCalls
    /\ UNCHANGED << bootVars, zones, mem, readers, zlock, pc, op, arg, rng, zi, live, dup,
                    histVars, szVars, fw, regions, num_pages, mmOut, mmCalls, mmGiven,
                    rgVars, blkVars, btVars >>

NextBoot ==
    \/ BootAllocateFrame
    \/ BootNewReturn
    \/ InitBegin
    \/ InitStep
    \/ InitDone
    \/ Step(1)

SpecBoot == InitBoot /\ [][NextBoot]_vars

(* ================================================================== *)
(* Region and RegionBumpAllocator on their own                        *)
(* ================================================================== *)
MaxBumpCalls == 3

(* The region of tests::region and a small one at another address. *)
TestRegions == { [addr |-> 4096, size |-> 4096], [addr |-> 12288, size |-> 64] }

(* Layouts asked of the bump allocator: sizes that are and are not a   *)
(* multiple of the (power-of-two) alignment.                           *)
LayoutSizes == {1, 3, 4, 4096}
LayoutAligns == {1, 4, 8}

(* Offsets handed to split_at: inside, at and past the region's size. *)
SplitOffsets == {0, 64, 100, 4096, 5000}

InitRegion ==
    \E rg \in TestRegions, dbg \in BOOLEAN :
        /\ W = PageInfoSize
        /\ debug = dbg
        /\ AllocatorOff /\ SizingOff /\ MapOff /\ BlockOff
        /\ rgBump = RegionBumpAllocator_from(rg)
        /\ rgPc = "run"
        /\ rgRes = [op |-> "none"]
        /\ rgCalls = MaxBumpCalls
        /\ rgAllocs = {}

(* rg_bump.alloc(Layout::from_size_align(size, align).unwrap()) *)
BumpAlloc(size, align) ==
    /\ rgPc = "run"
    /\ rgCalls > 0
    /\ LET r == RegionBumpAllocator_alloc(rgBump, size, align)
       IN  /\ rgBump' = r.alloc
           /\ rgRes' = [op |-> "alloc", size |-> size, align |-> align,
                        offset |-> rgBump.offset, ok |-> r.ok, ptr |-> r.ptr]
           /\ rgAllocs' = IF r.ok THEN rgAllocs \cup {<< r.ptr, size >>} ELSE rgAllocs
    /\ rgCalls' = rgCalls - 1
    /\ UNCHANGED rgPc

(* Region { addr, size }.split_at(off) on the allocator's region. *)
SplitAt(off) ==
    /\ rgPc = "run"
    /\ rgCalls > 0
    /\ LET r == split_at([addr |-> rgBump.start, size |-> rgBump.size], off)
       IN  /\ rgRes' = IF r.ok
                       THEN [op |-> "split_at", offset |-> off, ok |-> TRUE,
                             left |-> r.left, right |-> r.right]
                       ELSE [op |-> "split_at", offset |-> off, ok |-> FALSE]
           /\ rgPc' = IF r.ok THEN "run" ELSE "panic"
    /\ rgCalls' = rgCalls - 1
    /\ UNCHANGED << rgBump, rgAllocs >>

NextRegion ==
    /\ \/ \E size \in LayoutSizes, align \in LayoutAligns : BumpAlloc(size, align)
       \/ \E off \in SplitOffsets : SplitAt(off)
    /\ UNCHANGED << bootVars, zones, mem, readers, zlock, pc, op, arg, rng, zi,
                    live, dup, histVars, calls, szVars, mmVars, blkVars, btVars >>

SpecRegion == InitRegion /\ [][NextRegion]_vars

(* ================================================================== *)
(* Block on its own                                                   *)
(* ================================================================== *)
(* A region whose prefix holds the slab of a 4-page zone. *)
SlabRegion == [addr |-> Pages(48), size |-> Pages(8)]

InitBlock ==
    \E k \in Orders, o \in Orders, dbg \in BOOLEAN :
        /\ W = PageInfoSize
        /\ debug = dbg
        /\ AllocatorOff /\ SizingOff /\ MapOff /\ RegionOff
        /\ blkK = k
        /\ blkO = o
        /\ blkPc = "start"
        /\ blkRes = [op |-> "none"]

(* Builds a slab, makes Block::from_order(k) and compares it and a     *)
(* Used block of the slab with the order o.                            *)
BlockOps ==
    /\ blkPc = "start"
    /\ LET slab == new_blocks_for_region(SlabRegion, usable_pages(8, W).val)
           blk  == from_order(blkK)
       IN  blkRes' = [op        |-> "block",
                      slab_ok   |-> slab.ok,
                      slab      |-> {Block_of_byte(slab.blocks[i]) : i \in 0..(slab.len - 1)},
                      byte      |-> blk,
                      block     |-> Block_of_byte(blk),
                      larger    |-> larger_than(blk, blkO),
                      used_larger |-> larger_than(Used, blkO)]
    /\ blkPc' = "done"
    /\ UNCHANGED << blkK, blkO >>

NextBlock ==
    /\ BlockOps
    /\ UNCHANGED << bootVars, zones, mem, readers, zlock, pc, op, arg, rng, zi,
                    live, dup, histVars, calls, szVars, mmVars, rgVars, btVars >>

SpecBlock == InitBlock /\ [][NextBlock]_vars

(* ================================================================== *)
(* Properties                                                         *)
(* ================================================================== *)
Disjoint(r1, r2) == r1[2] <= r2[1] \/ r2[2] <= r1[1]

RangeLen(r) == r[2] - r[1]

(* C1 Disjointness: any two frame ranges that are live (returned by    *)
(* alloc and not yet passed to free) share no page.                    *)
C1_Disjointness ==
    /\ ~dup
    /\ \A r1 \in live, r2 \in live : r1 # r2 => Disjoint(r1, r2)

(* C2 Containment: a range produced by Zone::alloc(order) lies inside  *)
(* the pages of the zone that produced it, inside no other zone, and   *)
(* starts a multiple of 2^order pages after the start of the zone.     *)
C2_Containment ==
    \A t \in Threads :
        pc[t] \in {"fill", "ret"} =>
            LET zone == zones[zi[t]]
                r == rng[t]
            IN  /\ zone.start <= r[1]
                /\ r[2] <= zone.start + zone.num_pages
                /\ \A y \in ZoneIds \ {zi[t]} : Disjoint(r, <<zones[y].start, zones[y].end>>)
                /\ (r[1] - zone.start) % Pow2(arg[t]) = 0

(* Ranges handed out by Zone::alloc and not given back by Zone::free:  *)
(* the live ranges and those inside a call in progress.                *)
Held == live \cup {rng[t] : t \in {u \in Threads : pc[u] # "idle" /\ rng[u] # NoRange}}

RECURSIVE SumLen(_)
SumLen(S) == IF S = {} THEN 0
             ELSE LET r == CHOOSE x \in S : TRUE IN RangeLen(r) + SumLen(S \ {r})

(* Pages of a zone its tree records as free: pages under a slot that   *)
(* holds the free block of its own level and has no Used ancestor, so  *)
(* that a later alloc of that level can return it.                     *)
RecordedFree(zone) ==
    {p \in DOMAIN zone.order_list[0] :
        \E L \in Levels :
            /\ zone.order_list[L][p \div Pow2(L)] = from_order(L)
            /\ \A J \in (L + 1)..MAX_ORDER : zone.order_list[J][p \div Pow2(J)] # Used}

RECURSIVE SumOver(_, _)
SumOver(f, n) == IF n = 0 THEN 0 ELSE f[n] + SumOver(f, n - 1)

(* C3 Conservation: pages inside live allocations plus pages the trees *)
(* record as free equals the sum of zone.num_pages.                    *)
C3_Conservation ==
    SumLen(Held) + SumOver([z \in ZoneIds |-> Cardinality(RecordedFree(zones[z]))], Len(zones))
        = SumOver([z \in ZoneIds |-> zones[z].num_pages], Len(zones))

(* C4 Tree consistency: every slot of a level above 0 is the           *)
(* parent_state of its two children.                                   *)
C4_TreeConsistency ==
    \A z \in ZoneIds :
        \A L \in 0..(MAX_ORDER - 1) :
            \A i \in DOMAIN zones[z].order_list[L + 1] :
                zones[z].order_list[L + 1][i]
                    = parent_state(zones[z].order_list[L][2 * i], zones[z].order_list[L][2 * i + 1])

(* r1 and r2 are the left and right half of one aligned block of zone. *)
BuddySiblings(zone, r1, r2) ==
    /\ RangeLen(r1) = RangeLen(r2)
    /\ r1[2] = r2[1]
    /\ zone.start <= r1[1]
    /\ r2[2] <= zone.end
    /\ (r1[1] - zone.start) % (2 * RangeLen(r1)) = 0

(* C5 Coalescing: when both buddy siblings of an order k <= 10 are     *)
(* live, Zone::free of the one and then of the other completes, and a  *)
(* Zone::alloc(k + 1) on the zone issued next succeeds.                *)
C5_Coalescing ==
    \A z \in ZoneIds : \A r1 \in live, r2 \in live :
        (BuddySiblings(zones[z], r1, r2) /\ RangeLen(r1) <= Pow2(MAX_ORDER - 1)) =>
            LET f1 == Zone_free(zones[z], r1, debug)
                f2 == Zone_free(f1.zone, r2, debug)
                k == trailing_zeros(RangeLen(r1))
            IN  /\ f1.tag = "ok"
                /\ f2.tag = "ok"
                /\ Zone_alloc(f2.zone, k + 1).tag = "some"

(* C6 Round trip: in every zone state where alloc(k) succeeds,         *)
(* alloc(k) followed by free of the returned range completes and       *)
(* leaves every slot of the tree as it was before the alloc.           *)
C6_RoundTrip ==
    \A z \in ZoneIds : \A k \in Orders :
        LET a == Zone_alloc(zones[z], k)
        IN  a.tag = "some" =>
                LET f == Zone_free(a.zone, a.range, debug)
                IN  /\ f.tag = "ok"
                    /\ f.zone.order_list = zones[z].order_list

(* C7 Sizing closure: for T >= 3 the evaluation of usable_pages(T)     *)
(* yields N with N * W + blocks_in_region(T) <= (T - N) * 4096.  A     *)
(* negative szRes.val stands for a u64 above 2^63, for which the right *)
(* side is negative and the inequality false.                          *)
C7_SizingClosure ==
    (szPc \in {"done", "panic"} /\ szT >= 3) =>
        /\ szPc = "done"
        /\ szRes.val >= 0
        /\ szRes.val * W + blocks_in_region(szT) <= (szT - szRes.val) * 4096

(* C8 Zero on alloc: the step of Zone::alloc that ends in its return   *)
(* leaves each of the 2^order pages from the returned start frame      *)
(* filled with 0xB8 (debug) or 0x00 (release), and Zone::free changes  *)
(* the content of no frame outside the Block slab of its zone.         *)
C8_ZeroOnAlloc ==
    [][ \A t \in Threads :
           /\ (pc[t] = "fill" /\ pc'[t] = "ret") =>
                 \A f \in rng'[t][1]..(rng'[t][1] + Pow2(arg[t]) - 1) :
                    /\ f \in DOMAIN mem'
                    /\ mem'[f] = (IF debug THEN 184 ELSE 0)
           /\ (pc[t] = "zone" /\ op[t] = "free" /\ pc'[t] # "next") =>
                 Forget(mem', SlabFrames(zones[zi[t]])) = Forget(mem, SlabFrames(zones[zi[t]]))
      ]_vars

(* A Zone::alloc of order >= 1 is about to return its filled range. *)
C8_Witness ==
    \E t \in Threads :
        /\ pc[t] = "ret"
        /\ arg[t] >= 1
        /\ \A f \in FramesOf(rng[t]) : f \in DOMAIN mem /\ mem[f] = fill_byte(debug)

(* r is an aligned block of 2^k pages, k <= MAX_ORDER, of one zone. *)
ValidBuddyBlock(r) ==
    \E z \in ZoneIds : \E k \in Orders :
        /\ RangeLen(r) = Pow2(k)
        /\ zones[z].start <= r[1]
        /\ r[2] <= zones[z].end
        /\ (r[1] - zones[z].start) % Pow2(k) = 0

(* C9 Concurrent allocations: the ranges returned by alloc calls that  *)
(* ran at the same time as another alloc call are pairwise disjoint    *)
(* and each is an aligned block of 2^order pages of one zone.          *)
C9_ConcurrentAllocations ==
    /\ \A r \in concurrent : ValidBuddyBlock(r)
    /\ \A r1 \in concurrent, r2 \in concurrent : r1 # r2 => Disjoint(r1, r2)

(* C10 Lock order: a thread holds a zone lock only while it holds the  *)
(* zones lock in read mode, and never two zone locks at once.          *)
C10_LockOrder ==
    \A t \in Threads :
        LET held == {z \in ZoneIds : zlock[z] = t}
        IN  /\ held # {} => t \in readers
            /\ Cardinality(held) <= 1

(* A thread holds the lock of the second zone, having released the     *)
(* first, while another thread holds the lock of the first.            *)
C10_Witness ==
    \E t \in Threads, u \in Threads :
        /\ t # u
        /\ Len(zones) >= 2
        /\ zlock[2] = t /\ zlock[1] = u
        /\ t \in readers /\ u \in readers

(* C11 Zone order and out of memory: when Zone::alloc has just         *)
(* succeeded for a call of PhysAllocator::alloc, every zone installed  *)
(* before that zone fails for the order; and the call panics with out  *)
(* of memory only past the last zone, every zone failing for the order.*)
C11_FirstZoneOrOom ==
    \A t \in Threads :
        /\ pc[t] = "fill" =>
              \A y \in 1..(zi[t] - 1) : Zone_alloc(zones[y], arg[t]).tag = "none"
        /\ pc[t] = "panic_oom" =>
              /\ zi[t] = Len(zones) + 1
              /\ \A y \in ZoneIds : Zone_alloc(zones[y], arg[t]).tag = "none"

(* An alloc is served by the second zone after the first one failed. *)
C11_Witness ==
    \E t \in Threads :
        /\ pc[t] = "fill"
        /\ zi[t] = 2
        /\ Zone_alloc(zones[1], arg[t]).tag = "none"

(* The zone range [pages.start, pages.end) contains the whole of r. *)
ZoneContains(zone, r) == zone.start <= r[1] /\ r[2] <= zone.end

(* C12 Routing of free: a step of a PhysAllocator::free call changes   *)
(* no tree but that of the zone under its iterator; Zone::free is      *)
(* applied (the step leaves the loop other than to the next zone) only *)
(* to a zone that contains the whole range; and the call ends in the   *)
(* "not managed" panic only when no zone contains the range, leaving   *)
(* every tree as it was.                                               *)
C12_FreeRouting ==
    [][ \A t \in Threads :
           (op[t] = "free" /\ pc[t] # "idle" /\ pc'[t] # pc[t]) =>
              /\ \A y \in ZoneIds : y # zi[t] => zones'[y] = zones[y]
              /\ (pc[t] = "zone" /\ pc'[t] # "next") => ZoneContains(zones[zi[t]], rng[t])
              /\ (pc[t] = "zone" /\ pc'[t] = "next") => ~ZoneContains(zones[zi[t]], rng[t])
              /\ pc'[t] = "panic_unmanaged" =>
                    /\ zones' = zones
                    /\ \A y \in ZoneIds : ~ZoneContains(zones[y], rng[t])
      ]_vars

(* Zone::free was applied to the second zone, which contains the range. *)
C12_Witness ==
    \E t \in Threads :
        /\ op[t] = "free"
        /\ pc[t] = "panic_free"
        /\ zi[t] = 2
        /\ ZoneContains(zones[2], rng[t])

(* ------------------------------------------------------------------ *)
RECURSIVE SumPages(_)
SumPages(rgs) ==
    IF rgs = << >> THEN 0 ELSE Head(rgs).size \div 4096 + SumPages(Tail(rgs))

(* The firmware entries tagged Usable or Bootloader, in firmware order, *)
(* as regions.                                                          *)
KeptRegions(m) ==
    LET kept == SelectSeq(m, LAMBDA reg : reg.region_type \in {"Usable", "Bootloader"})
    IN  [i \in 1..Len(kept) |-> [addr |-> kept[i].start * 4096,
                                 size |-> (kept[i].end - kept[i].start) * 4096]]

(* r is what is left of the region o after whole pages were taken from *)
(* its head.                                                           *)
Trimmed(r, o) ==
    /\ r.addr + r.size = o.addr + o.size
    /\ r.addr >= o.addr
    /\ (r.addr - o.addr) % 4096 = 0
    /\ r.size > 0 \/ o.size = 0

RECURSIVE IsRemainderOf(_, _)
(* rgs holds, in the order of orig, what is left of each region of     *)
(* orig; a region that was used up page by page may be missing.        *)
IsRemainderOf(rgs, orig) ==
    IF orig = << >> THEN rgs = << >>
    ELSE \/ /\ rgs # << >>
            /\ Trimmed(Head(rgs), Head(orig))
            /\ IsRemainderOf(Tail(rgs), Tail(orig))
         \/ /\ Head(orig).size > 0
            /\ Head(orig).size % 4096 = 0
            /\ IsRemainderOf(rgs, Tail(orig))

(* C13 MemoryMap contents: the map holds the firmware regions tagged   *)
(* Usable or Bootloader and no others, in firmware order (exactly them *)
(* until the first allocate_frame, what is left of them afterwards),   *)
(* and num_pages is the sum of floor(size / 4096) over the regions it  *)
(* holds, after MemoryMap::new and after every allocate_frame.         *)
C13_MapContents ==
    mmPc # "off" =>
        /\ num_pages = SumPages(regions)
        /\ IsRemainderOf(regions, KeptRegions(fw))
        /\ mmCalls = 0 => regions = KeptRegions(fw)

C13_Witness ==
    /\ mmPc = "ready"
    /\ mmCalls >= 2
    /\ Len(regions) < Len(KeptRegions(fw))
    /\ Len(KeptRegions(fw)) < Len(fw)
    /\ num_pages > 0

(* ------------------------------------------------------------------ *)
(* The regions before index i have no whole page left. *)
NoPageBefore(rgs, i) == \A j \in 1..(i - 1) : rgs[j].size < 4096

(* C14 allocate_frame: a call that returns gives the frame at the head *)
(* of the first region (in array order) with at least 4 KiB, moves     *)
(* that region's addr up and its size down by 4 KiB, removes it when   *)
(* its size reaches 0, takes exactly 1 off num_pages and leaves every  *)
(* other region as it was; when no region has 4 KiB left the call is   *)
(* fatal and returns nothing.                                          *)
C14_AllocateFrame ==
    [][ /\ mmCalls' = mmCalls + 1 =>
            \E i \in 1..Len(regions) :
                /\ regions[i].size >= 4096
                /\ NoPageBefore(regions, i)
                /\ mmOut' * 4096 = regions[i].addr
                /\ num_pages' = num_pages - 1
                /\ IF regions[i].size = 4096
                   THEN /\ Len(regions') = Len(regions) - 1
                        /\ \A j \in 1..Len(regions') :
                               regions'[j] = IF j < i THEN regions[j] ELSE regions[j + 1]
                   ELSE /\ Len(regions') = Len(regions)
                        /\ regions'[i] = [addr |-> regions[i].addr + 4096,
                                          size |-> regions[i].size - 4096]
                        /\ \A j \in 1..Len(regions) : j # i => regions'[j] = regions[j]
        /\ (mmPc \in {"new", "ready"} /\ NoPageBefore(regions, Len(regions) + 1)) =>
               /\ mmCalls' = mmCalls
               /\ mmOut' = mmOut
               /\ regions' = regions
               /\ num_pages' = num_pages
               /\ mmPc' \in {"panic", "ready"}
        /\ (mmPc # "panic" /\ mmPc' = "panic") => NoPageBefore(regions, Len(regions) + 1)
      ]_vars

(* The call that took the last page of a region ahead of another one,  *)
(* past a region that never had a page.                                *)
C14_Witness ==
    /\ fw = FwEmpty
    /\ mmCalls = 8
    /\ mmOut = 10
    /\ Len(regions) = 3
    /\ regions[1].size = 0
    /\ regions[2].addr = 12 * 4096

(* ------------------------------------------------------------------ *)
(* The least multiple of a that is not below x. *)
RoundedUp(x, a) == CHOOSE y \in x..(x + a - 1) : y % a = 0

(* C15 RegionBumpAllocator::alloc(size, align) at cursor offset takes  *)
(* new_offset = offset + size rounded up to align; when new_offset is  *)
(* larger than the region's size it fails and leaves the cursor, else  *)
(* it returns start + (offset rounded up to align) + PHYS_OFFSET and   *)
(* moves the cursor to new_offset.                                     *)
C15_BumpAlloc ==
    rgRes.op = "alloc" =>
        LET new_offset == RoundedUp(rgRes.offset + rgRes.size, rgRes.align)
        IN  IF new_offset > rgBump.size
            THEN /\ ~rgRes.ok
                 /\ rgBump.offset = rgRes.offset
            ELSE /\ rgRes.ok
                 /\ rgRes.ptr = rgBump.start + RoundedUp(rgRes.offset, rgRes.align) + PHYS_OFFSET
                 /\ rgBump.offset = new_offset

(* The third allocation of tests::region: (4, 4) at cursor 5. *)
C15_Witness ==
    /\ rgRes.op = "alloc"
    /\ rgRes.ok
    /\ rgRes.offset = 5
    /\ rgRes.align = 4
    /\ rgRes.ptr = PHYS_OFFSET + 4096 + 8
    /\ rgBump.offset = 12

(* ------------------------------------------------------------------ *)
(* C16 Region::split_at(off) on {addr, size}: with off < size it gives *)
(* the prefix {addr, off} and the suffix {addr + off, size - off},     *)
(* which are adjacent, do not overlap and cover the region; with       *)
(* off >= size the assertion fails.                                    *)
C16_SplitAt ==
    rgRes.op = "split_at" =>
        IF rgRes.offset < rgBump.size
        THEN /\ rgRes.ok
             /\ rgPc = "run"
             /\ rgRes.left = [addr |-> rgBump.start, size |-> rgRes.offset]
             /\ rgRes.right = [addr |-> rgBump.start + rgRes.offset,
                               size |-> rgBump.size - rgRes.offset]
             /\ rgRes.left.addr + rgRes.left.size = rgRes.right.addr
             /\ rgRes.right.addr + rgRes.right.size = rgBump.start + rgBump.size
        ELSE /\ ~rgRes.ok
             /\ rgPc = "panic"

(* The split of tests::region. *)
C16_Witness ==
    /\ rgRes.op = "split_at"
    /\ rgRes.ok
    /\ rgRes.left = [addr |-> 4096, size |-> 100]
    /\ rgRes.right = [addr |-> 4196, size |-> 3996]

(* ------------------------------------------------------------------ *)
(* C17 Block encoding: a Block is one byte and the byte 0 is Used, so  *)
(* the zero-filled slab of new_blocks_for_region is an all-Used tree;  *)
(* from_order(k) for k in 0..11 is the byte k + 1 (never 0, never read *)
(* as Used); from_order(k).larger_than(o) is true exactly when k >= o  *)
(* and Used.larger_than(o) is false for every o.                       *)
C17_BlockEncoding ==
    blkPc = "done" =>
        /\ blkRes.slab_ok
        /\ blkRes.slab = {[variant |-> "Used"]}
        /\ blkRes.byte \in 1..255
        /\ blkRes.byte = blkK + 1
        /\ blkRes.block.variant = "LargestFreeOrder"
        /\ blkRes.block.nzu - 1 = blkK
        /\ blkRes.larger <=> (blkK >= blkO)
        /\ ~blkRes.used_larger

C17_Witness ==
    /\ blkPc = "done"
    /\ blkK = MAX_ORDER
    /\ blkO = MAX_ORDER
    /\ blkRes.larger
    /\ blkRes.byte = 12

(* ------------------------------------------------------------------ *)
(* No call has been made yet: every zone is as Zone::new built it. *)
Fresh == \A t \in Threads : op[t] = "none"

(* C18 On a freshly built zone of exactly 2048 pages the first         *)
(* alloc(0) returns the frame at zone.start and the second the frame   *)
(* zone.start + 1; the free of the first frame completes and an        *)
(* alloc(1) issued then does not return the block at zone.start; the   *)
(* free of the second frame completes and the next alloc(1) returns    *)
(* the block at zone.start.                                            *)
C18_Scenario2048 ==
    \A z \in ZoneIds :
        (Fresh /\ zones[z].num_pages = 2048) =>
            LET start == zones[z].start
                a1 == Zone_alloc(zones[z], 0)
                a2 == Zone_alloc(a1.zone, 0)
                f1 == Zone_free(a2.zone, a1.range, debug)
                b1 == Zone_alloc(f1.zone, 1)
                f2 == Zone_free(b1.zone, a2.range, debug)
                b2 == Zone_alloc(f2.zone, 1)
            IN  /\ a1.tag = "some" /\ a1.range = << start, start + 1 >>
                /\ a2.tag = "some" /\ a2.range = << start + 1, start + 2 >>
                /\ f1.tag = "ok"
                /\ ~(b1.tag = "some" /\ b1.range[1] = start)
                /\ f2.tag = "ok"
                /\ b2.tag = "some" /\ b2.range = << start, start + 2 >>

(* ------------------------------------------------------------------ *)
(* C19 On a freshly built zone of 4 pages alloc(2) fails; alloc(1)     *)
(* then succeeds twice and a third alloc(1) fails; the frees of both   *)
(* order-1 ranges complete and alloc(2) then succeeds.                 *)
C19_Scenario4 ==
    \A z \in ZoneIds :
        (Fresh /\ zones[z].num_pages = 4) =>
            LET a0 == Zone_alloc(zones[z], 2)
                a1 == Zone_alloc(a0.zone, 1)
                a2 == Zone_alloc(a1.zone, 1)
                a3 == Zone_alloc(a2.zone, 1)
                f1 == Zone_free(a3.zone, a1.range, debug)
                f2 == Zone_free(f1.zone, a2.range, debug)
                a4 == Zone_alloc(f2.zone, 2)
            IN  /\ a0.tag = "none"
                /\ a1.tag = "some"
                /\ a2.tag = "some"
                /\ a3.tag = "none"
                /\ f1.tag = "ok"
                /\ f2.tag = "ok"
                /\ a4.tag = "some"

(* ------------------------------------------------------------------ *)
(* Slot i of level L is one an alloc(L) can select: it holds           *)
(* LargestFreeOrder(L) and every slot above it lets the descent pass.  *)
Selectable(zone, L, i) ==
    /\ zone.order_list[L][i] = L + 1
    /\ \A J \in (L + 1)..MAX_ORDER :
           LET b == zone.order_list[J][i \div Pow2(J - L)]
           IN  b # 0 /\ b > L

(* Page indexes (from zone.start) under the selectable slots. *)
OfferedPages(zone) ==
    UNION { {i * Pow2(L) + d : d \in 0..(Pow2(L) - 1)} :
            <<L, i>> \in { <<L, i>> \in Levels \X (0..(MAX_ORDER_PAGES - 1)) :
                              i \in DOMAIN zone.order_list[L] /\ Selectable(zone, L, i) } }

(* C20 Initial fill: right after Zone::new, for num_pages >= 2, the    *)
(* pages under the slots an alloc can select are exactly the indexes   *)
(* 0 .. num_pages - 1: each of them is under such a slot and no such   *)
(* slot covers an index >= num_pages.                                  *)
C20_InitialFill ==
    \A z \in ZoneIds :
        (Fresh /\ zones[z].num_pages >= 2) =>
            OfferedPages(zones[z]) = 0..(zones[z].num_pages - 1)

(* ------------------------------------------------------------------ *)
(* C21 Zone::free of a range of 2^k pages (k <= 11) that starts        *)
(* p * 2^k pages after the start of the zone, whose slot [k][p] is     *)
(* Used: it completes, leaves LargestFreeOrder(k) in slot [k][p] and   *)
(* every ancestor of that slot up to level 11 equal to parent_state of *)
(* its two children.                                                   *)
C21_FreeComputation ==
    \A z \in ZoneIds : \A r \in live :
        LET k == trailing_zeros(RangeLen(r))
            p == (r[1] - zones[z].start) \div RangeLen(r)
        IN  ( /\ ZoneContains(zones[z], r)
              /\ RangeLen(r) = Pow2(k)
              /\ k <= MAX_ORDER
              /\ (r[1] - zones[z].start) % RangeLen(r) = 0
              /\ zones[z].order_list[k][p] = 0 ) =>
                LET f == Zone_free(zones[z], r, debug)
                    ol == f.zone.order_list
                IN  /\ f.tag = "ok"
                    /\ ol[k][p] = k + 1
                    /\ \A J \in (k + 1)..MAX_ORDER :
                           LET q == p \div Pow2(J - k)
                           IN  ol[J][q] = parent_state(ol[J - 1][2 * q], ol[J - 1][2 * q + 1])

(* ------------------------------------------------------------------ *)
(* Block i of order k of a zone, as a frame range. *)
BlockRange(zone, k, i) == << zone.start + i * Pow2(k), zone.start + (i + 1) * Pow2(k) >>

(* Some aligned block of 2^k pages inside [0, num_pages) shares no     *)
(* page with a range that is handed out.                               *)
HasFreeBlock(zone, k) ==
    \E i \in 0..(zone.num_pages \div Pow2(k) - 1) :
        \A r \in Held : Disjoint(r, BlockRange(zone, k, i))

(* C22 Zone::alloc(order) fails exactly when the zone has no free      *)
(* block of that order: no aligned run of 2^order pages inside         *)
(* [0, num_pages) that is clear of every live allocation.              *)
C22_AllocFailsIff ==
    \A z \in ZoneIds : \A k \in Orders :
        (Zone_alloc(zones[z], k).tag = "none") <=> ~HasFreeBlock(zones[z], k)

(* ------------------------------------------------------------------ *)
(* Ranges a caller may pass to Zone::free: the blocks of orders 0..4   *)
(* among the first 16 pages, the first block of order 11 and a range   *)
(* of 2^12 pages.                                                      *)
FreeCandidates(zone) ==
    {BlockRange(zone, k, i) : <<k, i>> \in
        { <<k, i>> \in (0..(MAX_ORDER + 1)) \X (0..15) :
            \/ k <= 4 /\ i < 16 \div Pow2(k)
            \/ k >= MAX_ORDER /\ i = 0 }}

(* The free of r violates the contract: the order of r exceeds         *)
(* MAX_ORDER or the slot of r is not Used.                             *)
Violates(zone, r) ==
    LET k == trailing_zeros(RangeLen(r))
        p == (r[1] - zone.start) \div RangeLen(r)
    IN  k > MAX_ORDER \/ zone.order_list[k][p] # 0

(* C24 A Zone::free that violates the contract (slot not Used, as in a *)
(* second free of one range, or order above MAX_ORDER) ends in a fatal *)
(* error and leaves every slot of the tree as it was.                  *)
C24_FatalFree ==
    \A z \in ZoneIds : \A r \in FreeCandidates(zones[z]) :
        Violates(zones[z], r) =>
            LET f == Zone_free(zones[z], r, debug)
            IN  /\ f.tag = "panic"
                /\ f.zone.order_list = zones[z].order_list

(* A free has ended in a panic and the tree still has slots whose free *)
(* would violate the contract.                                         *)
C24_Witness ==
    \E t \in Threads :
        /\ pc[t] = "panic_free"
        /\ \E r \in FreeCandidates(zones[zi[t]]) :
               /\ Violates(zones[zi[t]], r)
               /\ RangeLen(r) = 1
               /\ Zone_free(zones[zi[t]], r, debug).tag = "panic"

(* ------------------------------------------------------------------ *)
(* C27 Small regions: for every page count T >= 0 usable_pages(T) is   *)
(* computed without underflow or wrap-around and is smaller than T, so *)
(* init skips the region (value <= 1) or splits it at an offset with   *)
(* 0 < offset < region size.                                           *)
C27_SmallRegions ==
    szPc \in {"done", "panic"} =>
        /\ ~szRes.overflow
        /\ szPc = "done"
        /\ szRes.val >= 0
        /\ szRes.val < szT
        /\ \/ szRes.val <= 1
           \/ /\ 0 < (szT - szRes.val) * 4096
              /\ (szT - szRes.val) * 4096 < szT * 4096

(* ------------------------------------------------------------------ *)
(* The bytes of an allocation <<ptr, size>>. *)
BytesOf(a) == a[1]..(a[1] + a[2] - 1)

(* C28 The byte intervals [ptr, ptr + size) of the successful          *)
(* allocations of one RegionBumpAllocator do not overlap each other    *)
(* and lie inside [start + PHYS_OFFSET, start + size + PHYS_OFFSET).   *)
C28_BumpDisjoint ==
    /\ \A a \in rgAllocs, b \in rgAllocs : a # b => BytesOf(a) \cap BytesOf(b) = {}
    /\ \A a \in rgAllocs :
           /\ rgBump.start + PHYS_OFFSET <= a[1]
           /\ a[1] + a[2] <= rgBump.start + rgBump.size + PHYS_OFFSET

(* CPU u has panicked: the panic handler keeps it in a hlt loop. *)
Halted(u) ==
    pc[u] \in {"panic_oom", "panic_unmanaged", "panic_unreachable", "panic_free"}

(* C26 No deadlock and no lost call: a call that has begun can always  *)
(* still return or panic. A CPU that waits for the lock of a zone      *)
(* waits for a holder that is still running and will release it; a     *)
(* holder that has halted never does, and the waiting call is lost.    *)
C26_NoLostCall ==
    \A t \in Threads :
        (pc[t] = "lock" /\ zi[t] \in ZoneIds /\ zlock[zi[t]] # 0)
            => ~Halted(zlock[zi[t]])

(* ------------------------------------------------------------------ *)
(* C23 The descent of Zone::alloc never reaches unreachable!(): no     *)
(* call has ended there, and in every reachable zone state an alloc of *)
(* any order either fails at the top level or finds, at each level of  *)
(* its descent, a child with larger_than(order).                       *)
C23_NoUnreachable ==
    /\ \A t \in Threads : pc[t] # "panic_unreachable"
    /\ \A z \in ZoneIds : \A k \in Orders : Zone_alloc(zones[z], k).tag # "unreachable"

(* ------------------------------------------------------------------ *)
(* C25: for every region PhysAllocator::init does not skip, the Block *)
(* slab of blocks_in_region(usable_pages) bytes lies inside the       *)
(* reserved prefix of the region, so that new_blocks_for_region does  *)
(* not fail and a zone is built; that zone has num_pages equal to     *)
(* usable_pages; and no page of a zone lies in the slab of a zone.    *)
(* ------------------------------------------------------------------ *)
(* The last loop iteration got past the usable_pages <= 1 test. *)
NotSkipped == btLast.tag \in {"panic", "zone"} /\ btLast.at # "usable_pages"

ZonePages(zone) == zone.start .. (zone.end - 1)

C25_SlabInPrefix ==
    /\ NotSkipped =>
          /\ btLast.tag = "zone"
          /\ LET zone == zones[Len(zones)]
             IN  /\ zone.blocks_addr >= btLast.rg.addr
                 /\ zone.blocks_addr + blocks_in_region(btLast.usable)
                        <= btLast.rg.addr + btLast.reserved
                 /\ zone.num_pages = btLast.usable
    /\ \A z1, z2 \in ZoneIds : ZonePages(zones[z1]) \cap SlabFrames(zones[z2]) = {}

(* ------------------------------------------------------------------ *)
(* C29: a frame MemoryMap::allocate_frame returned before the map was *)
(* passed to PhysAllocator::init lies in no zone's pages and in no     *)
(* zone's Block slab, and is part of no range PhysAllocator::alloc    *)
(* returns.                                                           *)
(* ------------------------------------------------------------------ *)
(* The ranges alloc has produced: returned, or about to be. *)
Returned == live \cup {rng[t] : t \in {u \in Threads : pc[u] \in {"fill", "ret"}}}

====
